---- MODULE Spec2Model ----
(***************************************************************************)
(* Model of the two desktop-integration scripts of openvpn3-linux:         *)
(*   - openvpn3-desktop-session-watcher.py (the "notifier"): Notify,       *)
(*     SessionWatcher, SessionManagerWatcher and the main program;         *)
(*   - watch-session-log.py (the "log tailer").                            *)
(* The two scripts are independent processes; each has its own             *)
(* specification (Spec for the notifier, SpecTailer for the log tailer).   *)
(***************************************************************************)
EXTENDS Integers, Sequences, FiniteSets, TLC

(***************************************************************************)
(* Bounds of the model                                                     *)
(***************************************************************************)
\* Notify calls the desktop notification service accepts in one run
MaxNotif == 2
\* SessionWatcher objects attached to their sessions at one time
MaxWatchers == 2
\* "Waiting for org.freedesktop.Notifications" rounds that are counted
MaxWait == 2
\* StatusChange signals delivered to the log tailer in one run
MaxPrinted == 2
\* largest number of sessions LookupConfigName() finds under one name
MaxFound == 2

(***************************************************************************)
(* Values                                                                  *)
(***************************************************************************)
\* os.getuid() of the user running the notifier
Uid == 1000

\* D-Bus paths of the VPN sessions of the environment: one session owned by
\* the user, one owned by another user who granted the user access to it
PathUser == "/net/openvpn/v3/sessions/a"
PathOther == "/net/openvpn/v3/sessions/b"
Paths == {PathUser, PathOther}

\* the owner identity the session manager reports for a session
OwnerOf(p) == IF p = PathUser THEN Uid ELSE Uid + 1

\* openvpn3.constants.StatusMajor / StatusMinor (the members the scripts name,
\* and one more of each that they do not name)
Majors == {"CONFIG", "CONNECTION", "SESSION"}
Minors == {"CFG_OK", "CONN_CONNECTED", "CONN_RECONNECTING", "CONN_DISCONNECTED",
           "CONN_FAILED", "CONN_AUTH_FAILED", "SESS_AUTH_URL", "PROC_STOPPED"}
\* a status event is a (major, minor) pair; the message text is not modelled
Statuses == Majors \X Minors

\* the status events the notifier is run with: the four it acts on, and three
\* it does not name (an unnamed minor, a named minor under another major,
\* another major)
WatchedStatuses ==
    {<<"SESSION", "SESS_AUTH_URL">>, <<"CONNECTION", "CONN_CONNECTED">>,
     <<"CONNECTION", "CONN_RECONNECTING">>, <<"CONNECTION", "CONN_DISCONNECTED">>,
     <<"CONNECTION", "CONN_FAILED">>, <<"SESSION", "CONN_RECONNECTING">>,
     <<"CONFIG", "CFG_OK">>}

EventTypes == {"SESS_CREATED", "SESS_DESTROYED"}

\* Python's None: what a function without a return statement yields.
\* The notification service hands out ids 1, 2, ...
PyNone == 0

\* d[k] = v on a Python dict
SetKey(d, k, v) == [x \in (DOMAIN d) \cup {k} |-> IF x = k THEN v ELSE d[x]]

\* d.pop(k) on a Python dict
PopKey(d, k) == [x \in (DOMAIN d) \ {k} |-> d[x]]

EmptyDict == [x \in {} |-> PyNone]

VARIABLES
    \* ---- notifier process ----
    npc,            \* position of the main program
    svcReachable,   \* environment: org.freedesktop.Notifications can be reached
    waits,          \* number of "Waiting for ..." rounds so far
    toEnum,         \* sessions FetchAvailableSessions() returned, not yet registered
    sessions,       \* SessionManagerWatcher.__sessions: path -> watcher (index)
    watchers,       \* the SessionWatcher objects whose StatusChange handler is
                    \* attached to their session, in the order of attachment
    auth_notif,     \* Notify.__auth_notif: path -> stored value
    reconn_notif,   \* Notify.__reconn_notif: path -> stored value
    svcOpen,        \* notification service: notifications opened and not closed,
                    \* each with the dict it is filed under and its session
    nextId,         \* notification service: next id it hands out
    lastOp,         \* history: the operation performed by the last step
    \* ---- log tailer process ----
    tpc,            \* position of the log tailer's main program
    opts,           \* parsed command line
    found,          \* len(search): sessions the name lookup returned, -1 before it
    tcalls,         \* calls made to the session manager / session, in order
    printed,        \* number of [STATUS] lines printed
    received,       \* history: number of StatusChange signals delivered
    lastStatus,     \* history: the last status event the handler received
    quitReq,        \* mainloop.quit() has been called
    loopEnd,        \* history: what ended mainloop.run(): "quit" or "interrupt"
    exitCode        \* exit status of the tailer, -1 while running

nvars == <<npc, svcReachable, waits, toEnum, sessions, watchers,
           auth_notif, reconn_notif, svcOpen, nextId, lastOp>>
tvars == <<tpc, opts, found, tcalls, printed, received, lastStatus, quitReq,
           loopEnd, exitCode>>
vars == <<npc, svcReachable, waits, toEnum, sessions, watchers,
          auth_notif, reconn_notif, svcOpen, nextId, lastOp,
          tpc, opts, found, tcalls, printed, received, lastStatus, quitReq,
          loopEnd, exitCode>>

(***************************************************************************)
(* Notify: the notification sink.  Its methods are operators on the record *)
(*   st = [auth, reconn : the two dicts; open, nid : the service's state;  *)
(*         calls : the calls made to the service by the running handler]   *)
(***************************************************************************)
NotifyCall(id, title, path) == [op |-> "Notify", id |-> id, title |-> title, path |-> path]
CloseCall(id) == [op |-> "CloseNotification", id |-> id, title |-> "-", path |-> "-"]

\* the dict a notification title is filed under
CategoryOf(title) ==
    IF title \in {"Authentication Required", "Authentication Successful"}
    THEN "auth" ELSE "reconnect"

\* the service's Notify method: opens a notification and hands out its id
ServiceNotify(st, title, path) ==
    [st EXCEPT !.open = @ \cup {[id |-> st.nid, group |-> CategoryOf(title), path |-> path]},
               !.nid = @ + 1,
               !.calls = Append(@, NotifyCall(st.nid, title, path))]

\* the service's CloseNotification method
ServiceClose(st, nid) ==
    [st EXCEPT !.open = {n \in @ : n.id # nid},
               !.calls = Append(@, CloseCall(nid))]

\* Notify.__notify: calls the service; the id is only logged, nothing is returned
notify(st, title, path) ==
    [st |-> ServiceNotify(st, title, path), ret |-> PyNone]

\* Notify.__close_notify
close_notify(st, nid) ==
    IF nid = PyNone THEN st ELSE ServiceClose(st, nid)

\* Notify.CloseNotification
CloseNotification(st, group, path) ==
    IF group = "auth"
    THEN IF path \in DOMAIN st.auth THEN close_notify(st, st.auth[path]) ELSE st
    ELSE IF group = "reconnect"
         THEN IF path \in DOMAIN st.reconn THEN close_notify(st, st.reconn[path]) ELSE st
         ELSE st

\* Notify.WebAuthenticate
WebAuthenticate(st, path) ==
    LET s1 == IF path \in DOMAIN st.auth THEN CloseNotification(st, "auth", path) ELSE st
        r  == notify(s1, "Authentication Required", path)
    IN  [r.st EXCEPT !.auth = SetKey(@, path, r.ret)]

\* Notify.Connected
Connected(st, path) ==
    LET s1 == IF path \in DOMAIN st.auth THEN CloseNotification(st, "auth", path) ELSE st
        r  == notify(s1, "Authentication Successful", path)
    IN  [r.st EXCEPT !.auth = SetKey(@, path, r.ret)]

\* Notify.Reconnecting
Reconnecting(st, path) ==
    LET s1 == IF path \in DOMAIN st.reconn THEN CloseNotification(st, "reconnect", path) ELSE st
        r  == notify(s1, "session reconnecting", path)
    IN  [r.st EXCEPT !.reconn = SetKey(@, path, r.ret)]

\* Notify.Reconnected
Reconnected(st, path) ==
    LET s1 == IF path \in DOMAIN st.reconn THEN CloseNotification(st, "reconnect", path) ELSE st
        r  == notify(s1, "session reconnected", path)
    IN  [r.st EXCEPT !.reconn = SetKey(@, path, r.ret)]

\* Notify.Disconnected as it would be if it assigned a new dict holding the
\* session's entry instead of assigning the entry
Disconnected_new_dict(st, path) ==
    LET s1 == IF path \in DOMAIN st.auth THEN CloseNotification(st, "auth", path) ELSE st
        s2 == IF path \in DOMAIN s1.reconn THEN CloseNotification(s1, "reconnect", path) ELSE s1
        r  == notify(s2, "session disconnected", path)
    IN  [r.st EXCEPT !.reconn = SetKey(EmptyDict, path, r.ret)]

\* Notify.Disconnected
Disconnected(st, path) ==
    LET s1 == IF path \in DOMAIN st.auth THEN CloseNotification(st, "auth", path) ELSE st
        s2 == IF path \in DOMAIN s1.reconn THEN CloseNotification(s1, "reconnect", path) ELSE s1
        r  == notify(s2, "session disconnected", path)
    IN  [r.st EXCEPT !.reconn = SetKey(@, path, r.ret)]

(***************************************************************************)
(* SessionWatcher.  A watcher object is the record                         *)
(*   [path, reconnecting : the object's fields;                            *)
(*    hist : history of the CONNECTION events it has evaluated]            *)
(***************************************************************************)
\* SessionWatcher.__init__
NewWatcher(path) ==
    [path |-> path, reconnecting |-> FALSE, hist |-> "none"]

\* __evaluate_status as it would be with the reset of the flag left out of
\* the "reconnected" branch
evaluate_status_no_reset(w, st, major, minor) ==
    IF major = "SESSION"
    THEN IF minor = "SESS_AUTH_URL"
         THEN [w |-> w, st |-> WebAuthenticate(st, w.path)]
         ELSE [w |-> w, st |-> st]
    ELSE IF major = "CONNECTION"
    THEN IF minor = "CONN_CONNECTED"
         THEN IF w.reconnecting = FALSE
              THEN [w |-> w, st |-> Connected(st, w.path)]
              ELSE [w |-> w, st |-> Reconnected(st, w.path)]
         ELSE IF minor = "CONN_RECONNECTING"
         THEN [w |-> [w EXCEPT !.reconnecting = TRUE],
               st |-> Reconnecting(st, w.path)]
         ELSE IF minor = "CONN_DISCONNECTED"
         THEN [w |-> w, st |-> Disconnected(st, w.path)]
         ELSE [w |-> w, st |-> st]
    ELSE [w |-> w, st |-> st]

\* __evaluate_status as it would be if the CONNECTION branch ended in an else
\* that treated every remaining minor as a disconnect
evaluate_status_else_disconnected(w, st, major, minor) ==
    IF major = "SESSION"
    THEN IF minor = "SESS_AUTH_URL"
         THEN [w |-> w, st |-> WebAuthenticate(st, w.path)]
         ELSE [w |-> w, st |-> st]
    ELSE IF major = "CONNECTION"
    THEN IF minor = "CONN_CONNECTED"
         THEN IF w.reconnecting = FALSE
              THEN [w |-> w, st |-> Connected(st, w.path)]
              ELSE [w |-> [w EXCEPT !.reconnecting = FALSE],
                    st |-> Reconnected(st, w.path)]
         ELSE IF minor = "CONN_RECONNECTING"
         THEN [w |-> [w EXCEPT !.reconnecting = TRUE],
               st |-> Reconnecting(st, w.path)]
         ELSE [w |-> w, st |-> Disconnected(st, w.path)]
    ELSE [w |-> w, st |-> st]

\* __evaluate_status as it would be if the "disconnected" branch cleared the
\* flag
evaluate_status_disconnected_resets(w, st, major, minor) ==
    IF major = "SESSION"
    THEN IF minor = "SESS_AUTH_URL"
         THEN [w |-> w, st |-> WebAuthenticate(st, w.path)]
         ELSE [w |-> w, st |-> st]
    ELSE IF major = "CONNECTION"
    THEN IF minor = "CONN_CONNECTED"
         THEN IF w.reconnecting = FALSE
              THEN [w |-> w, st |-> Connected(st, w.path)]
              ELSE [w |-> [w EXCEPT !.reconnecting = FALSE],
                    st |-> Reconnected(st, w.path)]
         ELSE IF minor = "CONN_RECONNECTING"
         THEN [w |-> [w EXCEPT !.reconnecting = TRUE],
               st |-> Reconnecting(st, w.path)]
         ELSE IF minor = "CONN_DISCONNECTED"
         THEN [w |-> [w EXCEPT !.reconnecting = FALSE],
               st |-> Disconnected(st, w.path)]
         ELSE [w |-> w, st |-> st]
    ELSE [w |-> w, st |-> st]

\* SessionWatcher.__evaluate_status
evaluate_status(w, st, major, minor) ==
    IF major = "SESSION"
    THEN IF minor = "SESS_AUTH_URL"
         THEN [w |-> w, st |-> WebAuthenticate(st, w.path)]
         ELSE [w |-> w, st |-> st]
    ELSE IF major = "CONNECTION"
    THEN IF minor = "CONN_CONNECTED"
         THEN IF w.reconnecting = FALSE
              THEN [w |-> w, st |-> Connected(st, w.path)]
              ELSE [w |-> [w EXCEPT !.reconnecting = FALSE],
                    st |-> Reconnected(st, w.path)]
         ELSE IF minor = "CONN_RECONNECTING"
         THEN [w |-> [w EXCEPT !.reconnecting = TRUE],
               st |-> Reconnecting(st, w.path)]
         ELSE IF minor = "CONN_DISCONNECTED"
         THEN [w |-> w, st |-> Disconnected(st, w.path)]
         ELSE [w |-> w, st |-> st]
    ELSE [w |-> w, st |-> st]

\* History kept beside a watcher, of the status events it evaluated:
\*   "none"          no CONNECTION/RECONNECTING or CONNECTION/CONNECTED yet
\*   "reconnecting"  the most recent of those two was RECONNECTING, and no
\*                   CONNECTION/DISCONNECTED has been evaluated after it
\*   "disconnected"  the most recent of those two was RECONNECTING, and a
\*                   CONNECTION/DISCONNECTED has been evaluated after it
\*   "connected"     the most recent of those two was CONNECTED
Observe(w, major, minor) ==
    IF major # "CONNECTION" THEN w
    ELSE IF minor = "CONN_RECONNECTING" THEN [w EXCEPT !.hist = "reconnecting"]
    ELSE IF minor = "CONN_CONNECTED" THEN [w EXCEPT !.hist = "connected"]
    ELSE IF minor = "CONN_DISCONNECTED" /\ w.hist = "reconnecting"
         THEN [w EXCEPT !.hist = "disconnected"]
    ELSE w

\* SessionWatcher.__status_chg_handler
status_chg_handler(w, st, major, minor) ==
    LET r == evaluate_status(w, st, major, minor)
    IN  [w |-> Observe(r.w, major, minor), st |-> r.st]

\* CheckStatus as it would be if it read the status without evaluating it
SessionWatcher_CheckStatus_no_eval(w, st, major, minor) ==
    [w |-> w, st |-> st]

\* SessionWatcher.CheckStatus; (major, minor) is what GetStatus() returned
SessionWatcher_CheckStatus(w, st, major, minor) ==
    LET r == evaluate_status(w, st, major, minor)
    IN  [w |-> Observe(r.w, major, minor), st |-> r.st]

\* s without its i-th element
RemoveAt(s, i) == [k \in 1..(Len(s) - 1) |-> IF k < i THEN s[k] ELSE s[k + 1]]

\* the registry d after the i-th attached watcher has gone from the list
Reindex(d, i) == [x \in DOMAIN d |-> IF d[x] > i THEN d[x] - 1 ELSE d[x]]

\* SessionWatcher.Stop, of the i-th attached watcher: closes the session's
\* auth notification and detaches the watcher's StatusChange handler
Stop(ws, st, i) ==
    [ws |-> RemoveAt(ws, i),
     st |-> CloseNotification(st, "auth", ws[i].path)]

\* The session objects' StatusChange signal: every handler attached for the
\* session at `path` is called, in the order the handlers were attached.
RECURSIVE DispatchStatus(_, _, _, _, _, _)
DispatchStatus(ws, st, i, path, major, minor) ==
    IF i > Len(ws) THEN [ws |-> ws, st |-> st]
    ELSE IF ws[i].path = path
         THEN LET r == status_chg_handler(ws[i], st, major, minor)
              IN  DispatchStatus([ws EXCEPT ![i] = r.w], r.st, i + 1, path, major, minor)
         ELSE DispatchStatus(ws, st, i + 1, path, major, minor)

(***************************************************************************)
(* SessionManagerWatcher.  Its methods are operators on the record         *)
(*   ns = [sessions : the registry, watchers : the watcher objects,        *)
(*         st : the notification sink]                                     *)
(***************************************************************************)
\* Register as it would be with a guard that keeps the entry of a path that
\* is already tracked
Register_keep_first(ns, path) ==
    [ns EXCEPT !.watchers = Append(@, NewWatcher(path)),
               !.sessions = IF path \in DOMAIN @ THEN @
                            ELSE SetKey(@, path, Len(ns.watchers) + 1)]

\* SessionManagerWatcher.Register
Register(ns, path) ==
    [ns EXCEPT !.watchers = Append(@, NewWatcher(path)),
               !.sessions = SetKey(@, path, Len(ns.watchers) + 1)]

\* SessionManagerWatcher.CheckStatus
CheckStatus(ns, path, major, minor) ==
    IF path \in DOMAIN ns.sessions
    THEN LET i == ns.sessions[path]
             r == SessionWatcher_CheckStatus(ns.watchers[i], ns.st, major, minor)
         IN  [ns EXCEPT !.watchers[i] = r.w, !.st = r.st]
    ELSE ns

\* __mgr_event_handler as it would be without the check of the owner
mgr_event_handler_any_owner(ns, etype, evowner, path) ==
    IF etype = "SESS_CREATED"
    THEN Register(ns, path)
    ELSE IF etype = "SESS_DESTROYED"
    THEN IF path \in DOMAIN ns.sessions
         THEN LET i == ns.sessions[path]
                  r == Stop(ns.watchers, ns.st, i)
              IN  [ns EXCEPT !.watchers = r.ws, !.st = r.st,
                             !.sessions = Reindex(PopKey(@, path), i)]
         ELSE ns
    ELSE ns

\* SessionManagerWatcher.__mgr_event_handler
mgr_event_handler(ns, etype, evowner, path) ==
    IF evowner \in {Uid, 0}
    THEN IF etype = "SESS_CREATED"
         THEN Register(ns, path)
         ELSE IF etype = "SESS_DESTROYED"
         THEN IF path \in DOMAIN ns.sessions
              THEN LET i == ns.sessions[path]
                       r == Stop(ns.watchers, ns.st, i)
                   IN  [ns EXCEPT !.watchers = r.ws, !.st = r.st,
                                  !.sessions = Reindex(PopKey(@, path), i)]
              ELSE ns
         ELSE ns
    ELSE ns

(***************************************************************************)
(* The notifier's main program and its event loop                          *)
(***************************************************************************)
\* History record of a step: the operation, its inputs, the calls it made to
\* the notification service, and whether every watcher attached for `path`
\* was Idle (reconnecting = False) when the step began
Op(op, path, major, minor, etype, evowner, calls) ==
    [op |-> op, path |-> path, major |-> major, minor |-> minor,
     etype |-> etype, owner |-> evowner, calls |-> calls,
     idle |-> \A i \in 1..Len(watchers) :
                 watchers[i].path = path => ~watchers[i].reconnecting]

\* the notifier's objects as one record, no service call made yet
NS ==
    [sessions |-> sessions, watchers |-> watchers,
     st |-> [auth |-> auth_notif, reconn |-> reconn_notif,
             open |-> svcOpen, nid |-> nextId, calls |-> <<>>]]

\* the notifier's objects after a handler has run
Commit(ns) ==
    /\ Len(ns.watchers) <= MaxWatchers
    /\ ns.st.nid <= MaxNotif + 1
    /\ sessions' = ns.sessions
    /\ watchers' = ns.watchers
    /\ auth_notif' = ns.st.auth
    /\ reconn_notif' = ns.st.reconn
    /\ svcOpen' = ns.st.open
    /\ nextId' = ns.st.nid

NotifierOff ==
    /\ npc = "off" /\ svcReachable = FALSE /\ waits = 0 /\ toEnum = {}
    /\ sessions = EmptyDict /\ watchers = <<>>
    /\ auth_notif = EmptyDict /\ reconn_notif = EmptyDict
    /\ svcOpen = {} /\ nextId = 1
    /\ lastOp = Op("off", "-", "-", "-", "-", -1, <<>>)

TailerOff ==
    /\ tpc = "off"
    /\ opts = [config |-> FALSE, path |-> FALSE, log_level |-> FALSE]
    /\ found = -1 /\ tcalls = <<>> /\ printed = 0 /\ received = 0
    /\ lastStatus = <<"-", "-">>
    /\ quitReq = FALSE /\ loopEnd = "-" /\ exitCode = -1

\* the notifier process right after it was started
NotifierInit ==
    /\ npc = "connecting"
    /\ svcReachable \in BOOLEAN
    /\ waits = 0
    /\ toEnum = {}
    /\ sessions = EmptyDict
    /\ watchers = <<>>
    /\ auth_notif = EmptyDict
    /\ reconn_notif = EmptyDict
    /\ svcOpen = {}
    /\ nextId = 1
    /\ lastOp = Op("start", "-", "-", "-", "-", -1, <<>>)

Init == NotifierInit /\ TailerOff

\* environment: the desktop notification service comes up
ServiceAppears ==
    /\ npc = "connecting"
    /\ ~svcReachable
    /\ svcReachable' = TRUE
    /\ lastOp' = Op("service_appears", "-", "-", "-", "-", -1, <<>>)
    /\ UNCHANGED <<npc, waits, toEnum, sessions, watchers,
                   auth_notif, reconn_notif, svcOpen, nextId>>
    /\ UNCHANGED tvars

\* Notify.__init__ as it would be if the except branch ended the loop as well
NotifyInit_no_retry ==
    /\ npc = "connecting"
    /\ npc' = "fetch"
    /\ waits' = waits
    /\ lastOp' = Op("connected", "-", "-", "-", "-", -1, <<>>)
    /\ UNCHANGED <<svcReachable, toEnum, sessions, watchers,
                   auth_notif, reconn_notif, svcOpen, nextId>>
    /\ UNCHANGED tvars

\* Notify.__init__: one round of the connection loop, then (once connected)
\* the rest of Notify.__init__ and of SessionManagerWatcher.__init__
NotifyInit ==
    /\ npc = "connecting"
    /\ \/ /\ svcReachable
          /\ npc' = "fetch"
          /\ waits' = waits
          /\ lastOp' = Op("connected", "-", "-", "-", "-", -1, <<>>)
       \/ /\ ~svcReachable
          /\ npc' = npc
          /\ waits' = IF waits < MaxWait THEN waits + 1 ELSE waits
          /\ lastOp' = Op("waiting", "-", "-", "-", "-", -1, <<>>)
    /\ UNCHANGED <<svcReachable, toEnum, sessions, watchers,
                   auth_notif, reconn_notif, svcOpen, nextId>>
    /\ UNCHANGED tvars

\* main program: sessmgr.FetchAvailableSessions()
FetchAvailableSessions ==
    /\ npc = "fetch"
    /\ \E S \in SUBSET Paths : toEnum' = S
    /\ npc' = "enumerate"
    /\ lastOp' = Op("fetch", "-", "-", "-", "-", -1, <<>>)
    /\ UNCHANGED <<svcReachable, waits, sessions, watchers,
                   auth_notif, reconn_notif, svcOpen, nextId>>
    /\ UNCHANGED tvars

\* main program: one round of the loop over the running sessions
EnumerateSession ==
    /\ npc = "enumerate"
    /\ \E p \in toEnum : \E s \in WatchedStatuses :
          LET ns == CheckStatus(Register(NS, p), p, s[1], s[2])
          IN  /\ Commit(ns)
              /\ toEnum' = toEnum \ {p}
              /\ lastOp' = Op("enumerate", p, s[1], s[2], "-", -1, ns.st.calls)
    /\ UNCHANGED <<npc, svcReachable, waits>>
    /\ UNCHANGED tvars

\* main program: mainloop.run() is entered
MainloopRun ==
    /\ npc = "enumerate"
    /\ toEnum = {}
    /\ npc' = "run"
    /\ lastOp' = Op("run", "-", "-", "-", "-", -1, <<>>)
    /\ UNCHANGED <<svcReachable, waits, toEnum, sessions, watchers,
                   auth_notif, reconn_notif, svcOpen, nextId>>
    /\ UNCHANGED tvars

\* a StatusChange signal of the session at path p is dispatched
StatusChange ==
    /\ npc = "run"
    /\ \E p \in Paths : \E s \in WatchedStatuses :
          /\ \E i \in 1..Len(watchers) : watchers[i].path = p
          /\ LET r == DispatchStatus(watchers, NS.st, 1, p, s[1], s[2])
             IN  /\ Commit([NS EXCEPT !.watchers = r.ws, !.st = r.st])
                 /\ lastOp' = Op("status", p, s[1], s[2], "-", -1, r.st.calls)
    /\ UNCHANGED <<npc, svcReachable, waits, toEnum>>
    /\ UNCHANGED tvars

\* a SessionManagerEvent signal is dispatched
SessionManagerEvent ==
    /\ npc = "run"
    /\ \E p \in Paths : \E t \in EventTypes :
          LET ns == mgr_event_handler(NS, t, OwnerOf(p), p)
          IN  /\ Commit(ns)
              /\ lastOp' = Op("mgr_event", p, "-", "-", t, OwnerOf(p), ns.st.calls)
    /\ UNCHANGED <<npc, svcReachable, waits, toEnum>>
    /\ UNCHANGED tvars

\* main program: KeyboardInterrupt ends mainloop.run(), then sys.exit(0)
NotifierInterrupt ==
    /\ npc = "run"
    /\ npc' = "exit"
    /\ lastOp' = Op("interrupt", "-", "-", "-", "-", -1, <<>>)
    /\ UNCHANGED <<svcReachable, waits, toEnum, sessions, watchers,
                   auth_notif, reconn_notif, svcOpen, nextId>>
    /\ UNCHANGED tvars

Next ==
    \/ ServiceAppears
    \/ NotifyInit
    \/ FetchAvailableSessions
    \/ EnumerateSession
    \/ MainloopRun
    \/ StatusChange
    \/ SessionManagerEvent
    \/ NotifierInterrupt

Spec == Init /\ [][Next]_vars

\* The notifier as a running process: the loop of Notify.__init__ is a loop of
\* one thread that sleeps and tries again, so a round that can be taken is
\* taken.  Nothing is assumed about when, or whether, the notification
\* service comes up.
SpecFair == Init /\ [][Next]_vars /\ WF_vars(NotifyInit)

(***************************************************************************)
(* Properties of the notifier                                              *)
(***************************************************************************)
\* the step just taken delivered the status event (major, minor)
IsStatus(o, major, minor) ==
    o.op = "status" /\ o.major = major /\ o.minor = minor

\* the step just taken handled a manager event of type t
IsMgrEvent(o, t) ==
    o.op = "mgr_event" /\ o.etype = t

\* C1, as stated: after each event a watcher's reconnecting flag is true iff
\* a CONNECTION/RECONNECTING event has occurred and neither a
\* CONNECTION/CONNECTED nor a CONNECTION/DISCONNECTED event has occurred after
\* the most recent one.
C1_FlagClearedByConnectedOrDisconnected ==
    \A i \in 1..Len(watchers) :
        watchers[i].reconnecting <=> watchers[i].hist = "reconnecting"

\* C1, amended: after each event a watcher's reconnecting flag is true iff a
\* CONNECTION/RECONNECTING event has occurred and no CONNECTION/CONNECTED
\* event has occurred after the most recent one (a CONNECTION/DISCONNECTED
\* event leaves the flag as it is).
C1_FlagClearedByConnectedOnly ==
    \A i \in 1..Len(watchers) :
        watchers[i].reconnecting <=>
            watchers[i].hist \in {"reconnecting", "disconnected"}

\* C1 witness: a watcher has evaluated RECONNECTING and then DISCONNECTED
C1_Witness ==
    /\ IsStatus(lastOp, "CONNECTION", "CONN_DISCONNECTED")
    /\ \E i \in 1..Len(watchers) :
          /\ watchers[i].path = lastOp.path
          /\ watchers[i].hist = "disconnected"
          /\ watchers[i].reconnecting

\* C2: at the notification service there is at most one outstanding
\* notification per (category, session path); a notification issued for a key
\* that has an outstanding one is preceded by a CloseNotification call for
\* the earlier id.
C2_OneOutstandingPerKey ==
    [][ /\ \A n1 \in svcOpen' : \A n2 \in svcOpen' :
              (n1.group = n2.group /\ n1.path = n2.path) => n1.id = n2.id
        /\ \A k \in 1..Len(lastOp'.calls) : \A n \in svcOpen :
              ( /\ lastOp'.calls[k].op = "Notify"
                /\ n.group = CategoryOf(lastOp'.calls[k].title)
                /\ n.path = lastOp'.calls[k].path )
              => \E c \in 1..(k - 1) : lastOp'.calls[c] = CloseCall(n.id)
      ]_vars

\* C3: for one Idle watcher with no reconnect notification on record, the
\* events CONNECTION/RECONNECTING, CONNECTION/CONNECTED produce exactly the
\* calls Notify("reconnecting"), CloseNotification(that id),
\* Notify("reconnected"), and the watcher ends Idle.
C3_ReconnectedClosesReconnecting ==
    [][ ( /\ IsStatus(lastOp, "CONNECTION", "CONN_RECONNECTING")
          /\ lastOp.idle
          /\ Len(lastOp.calls) = 1
          /\ IsStatus(lastOp', "CONNECTION", "CONN_CONNECTED")
          /\ lastOp'.path = lastOp.path
          /\ Cardinality({i \in 1..Len(watchers) : watchers[i].path = lastOp.path}) = 1 )
        => ( /\ lastOp.calls \o lastOp'.calls =
                  << NotifyCall(lastOp.calls[1].id, "session reconnecting", lastOp.path),
                     CloseCall(lastOp.calls[1].id),
                     NotifyCall(lastOp.calls[1].id + 1, "session reconnected", lastOp.path) >>
             /\ \A i \in 1..Len(watchers') :
                   watchers'[i].path = lastOp.path => ~watchers'[i].reconnecting )
      ]_vars

\* C4: a manager event whose owner is neither the user's uid nor 0 leaves the
\* registry and its watchers exactly as they were.
C4_ForeignOwnerEventIgnored ==
    [][ (lastOp'.op = "mgr_event" /\ lastOp'.owner \notin {Uid, 0})
        => (sessions' = sessions /\ watchers' = watchers)
      ]_vars

\* C4 witness: a destroyed event of another user's session was handled while
\* that session was in the registry
C4_Witness ==
    /\ IsMgrEvent(lastOp, "SESS_DESTROYED")
    /\ lastOp.owner \notin {Uid, 0}
    /\ lastOp.path \in DOMAIN sessions

\* C5: after a destroyed event for a path that is in the registry, the path
\* is no longer in the registry and its watcher is detached, also when the
\* path was registered by the startup enumeration.
C5_DestroyedRemovesTracked ==
    [][ (IsMgrEvent(lastOp', "SESS_DESTROYED") /\ lastOp'.path \in DOMAIN sessions)
        => ( /\ lastOp'.path \notin DOMAIN sessions'
             /\ watchers' = RemoveAt(watchers, sessions[lastOp'.path]) )
      ]_vars

\* C6: Register(path) for a tracked path replaces its entry: after a created
\* event of an accepted owner, or a round of the startup enumeration, the
\* registry holds the path once, bound to the watcher just constructed; the
\* other entries are as before, so the registry has one entry per tracked
\* path, each bound to an attached watcher of that path.
C6_RegisterReplacesEntry ==
    [][ ( \/ (IsMgrEvent(lastOp', "SESS_CREATED") /\ lastOp'.owner \in {Uid, 0})
          \/ lastOp'.op = "enumerate" )
        => ( /\ DOMAIN sessions' = (DOMAIN sessions) \cup {lastOp'.path}
             /\ Cardinality(DOMAIN sessions') =
                   Cardinality(DOMAIN sessions)
                     + (IF lastOp'.path \in DOMAIN sessions THEN 0 ELSE 1)
             /\ sessions'[lastOp'.path] = Len(watchers')
             /\ Len(watchers') = Len(watchers) + 1
             /\ \A q \in DOMAIN sessions' :
                   /\ sessions'[q] \in 1..Len(watchers')
                   /\ watchers'[sessions'[q]].path = q
                   /\ (q # lastOp'.path => sessions'[q] = sessions[q]) )
      ]_vars

\* C6 witness: a created event has been handled for a path that was tracked
C6_Witness ==
    /\ IsMgrEvent(lastOp, "SESS_CREATED")
    /\ lastOp.owner \in {Uid, 0}
    /\ Len(watchers) = 2
    /\ watchers[1].path = lastOp.path
    /\ watchers[2].path = lastOp.path
    /\ DOMAIN sessions = {lastOp.path}
    /\ sessions[lastOp.path] = 2

\* C10: CloseNotification(category, path) closes the outstanding notification
\* of that key at the service and forgets it.  Stop() calls
\* CloseNotification('auth', path): after a destroyed event that stopped the
\* watcher of a path, the sink holds no auth record for the path and the
\* service no outstanding auth notification of it.
C10_CloseForgetsRecord ==
    [][ ( /\ IsMgrEvent(lastOp', "SESS_DESTROYED")
          /\ lastOp'.owner \in {Uid, 0}
          /\ lastOp'.path \in DOMAIN sessions )
        => ( /\ lastOp'.path \notin DOMAIN auth_notif'
             /\ \A n \in svcOpen' : ~(n.group = "auth" /\ n.path = lastOp'.path) )
      ]_vars

\* the value the sink has on record for (group, path), -1 when it has none
RecordOf(group, path) ==
    IF group = "auth"
    THEN IF path \in DOMAIN auth_notif THEN auth_notif[path] ELSE -1
    ELSE IF path \in DOMAIN reconn_notif THEN reconn_notif[path] ELSE -1

\* the four status events the Session Watcher acts on
ActedStatuses ==
    {<<"SESSION", "SESS_AUTH_URL">>, <<"CONNECTION", "CONN_CONNECTED">>,
     <<"CONNECTION", "CONN_RECONNECTING">>, <<"CONNECTION", "CONN_DISCONNECTED">>}

\* the attached watchers of the session at path, in the order of attachment
WatchersOf(ws, path) ==
    LET Test(w) == w.path = path IN SelectSeq(ws, Test)

\* C11: every notification the sink issues yields the id the service's Notify
\* call returned: after a handler has run, the value the sink has on record
\* for (category, session path) is the id the service returned for the most
\* recent notification the handler issued for that key.
C11_RecordHoldsServiceId ==
    \A k \in 1..Len(lastOp.calls) :
        ( /\ lastOp.calls[k].op = "Notify"
          /\ \A j \in (k + 1)..Len(lastOp.calls) :
                ~ ( /\ lastOp.calls[j].op = "Notify"
                    /\ lastOp.calls[j].path = lastOp.calls[k].path
                    /\ CategoryOf(lastOp.calls[j].title) = CategoryOf(lastOp.calls[k].title) ) )
        => RecordOf(CategoryOf(lastOp.calls[k].title), lastOp.calls[k].path)
              = lastOp.calls[k].id

\* C12: Stop() closes the session's outstanding auth notification if there is
\* one, makes no call to the notification service if there is none, and
\* detaches the watcher's status subscription.  Stop() runs on a destroyed
\* event of an accepted owner for a tracked path: after it the service has no
\* outstanding auth notification of the path, each one that was outstanding
\* was closed by a CloseNotification call, no other call was made, and the
\* stopped watcher is no longer attached.
C12_StopClosesAuthAndDetaches ==
    [][ ( /\ IsMgrEvent(lastOp', "SESS_DESTROYED")
          /\ lastOp'.owner \in {Uid, 0}
          /\ lastOp'.path \in DOMAIN sessions )
        => ( /\ \A n \in svcOpen :
                   (n.group = "auth" /\ n.path = lastOp'.path)
                   => ( /\ n \notin svcOpen'
                        /\ \E k \in 1..Len(lastOp'.calls) :
                              lastOp'.calls[k] = CloseCall(n.id) )
             /\ ( (\A n \in svcOpen : ~(n.group = "auth" /\ n.path = lastOp'.path))
                  => lastOp'.calls = <<>> )
             /\ watchers' = RemoveAt(watchers, sessions[lastOp'.path]) )
      ]_vars

\* C13: a status event that is not one of SESSION/AUTH_URL,
\* CONNECTION/CONNECTED, CONNECTION/RECONNECTING, CONNECTION/DISCONNECTED is
\* ignored: no Notify and no CloseNotification call is made, and the
\* watchers, the notification records and the outstanding notifications are
\* as they were.
C13_OtherStatusIgnored ==
    [][ (lastOp'.op = "status" /\ <<lastOp'.major, lastOp'.minor>> \notin ActedStatuses)
        => ( /\ lastOp'.calls = <<>>
             /\ watchers' = watchers
             /\ auth_notif' = auth_notif
             /\ reconn_notif' = reconn_notif
             /\ svcOpen' = svcOpen
             /\ nextId' = nextId )
      ]_vars

\* C13 witness: CONNECTION/CONN_FAILED was delivered to a Reconnecting watcher
\* whose session has a reconnect notification on record
C13_Witness ==
    /\ IsStatus(lastOp, "CONNECTION", "CONN_FAILED")
    /\ lastOp.path \in DOMAIN reconn_notif
    /\ \E i \in 1..Len(watchers) :
          watchers[i].path = lastOp.path /\ watchers[i].reconnecting

\* C14: on CONNECTION/DISCONNECTED the outstanding auth and reconnect
\* notifications of the session are closed at the service before the
\* "disconnected" notification is shown: after the event, with one watcher
\* attached for the session, the "disconnected" notification just issued is
\* the only outstanding notification of the session.
C14_DisconnectedIsOnlyOutstanding ==
    ( /\ IsStatus(lastOp, "CONNECTION", "CONN_DISCONNECTED")
      /\ Len(WatchersOf(watchers, lastOp.path)) = 1 )
    => ( /\ Len(lastOp.calls) >= 1
         /\ lastOp.calls[Len(lastOp.calls)].op = "Notify"
         /\ lastOp.calls[Len(lastOp.calls)].title = "session disconnected"
         /\ \A n \in svcOpen :
               n.path = lastOp.path => n.id = lastOp.calls[Len(lastOp.calls)].id )

\* C15: CheckStatus(path) of the manager watcher does nothing when the path
\* is not in the registry; when it is, its effect on the registered watcher
\* and on the notification sink is that of delivering one status event with
\* the session's current status to that watcher, and nothing else changes.
\* So a session found at startup with current status CONNECTION/RECONNECTING
\* is Reconnecting, with the "reconnecting" notification shown, after Register
\* and CheckStatus.
C15_CheckStatusIsOneStatusEvent ==
    /\ \A p \in Paths : \A s \in WatchedStatuses :
          IF p \notin DOMAIN sessions
          THEN CheckStatus(NS, p, s[1], s[2]) = NS
          ELSE LET r == CheckStatus(NS, p, s[1], s[2])
                   i == sessions[p]
                   e == status_chg_handler(watchers[i], NS.st, s[1], s[2])
               IN  /\ r.watchers[i] = e.w
                   /\ r.st = e.st
                   /\ r.sessions = sessions
                   /\ Len(r.watchers) = Len(watchers)
                   /\ \A j \in 1..Len(watchers) : j # i => r.watchers[j] = watchers[j]
    /\ ( (lastOp.op = "enumerate" /\ lastOp.major = "CONNECTION"
                                  /\ lastOp.minor = "CONN_RECONNECTING")
         => ( /\ lastOp.path \in DOMAIN sessions
              /\ watchers[sessions[lastOp.path]].reconnecting
              /\ lastOp.calls =
                    <<NotifyCall(nextId - 1, "session reconnecting", lastOp.path)>> ) )

\* C15 witness: the startup enumeration has registered a session whose current
\* status is CONNECTION/RECONNECTING, and another session is not registered
C15_Witness ==
    /\ lastOp.op = "enumerate"
    /\ lastOp.major = "CONNECTION"
    /\ lastOp.minor = "CONN_RECONNECTING"
    /\ watchers[sessions[lastOp.path]].reconnecting
    /\ \E p \in Paths : p \notin DOMAIN sessions

\* C16: at startup, while the notification service cannot be reached the
\* notifier only retries the connection: it has registered no session, has
\* handled no manager or status event and has issued no notification.  The
\* retry loop is left only with the service reachable (so it never ends if
\* the service never comes up), and once the service is reachable the loop
\* ends; the manager event subscription and the startup enumeration come
\* after it.
C16_StartupWaitsForService ==
    /\ [](npc = "connecting"
            => ( /\ sessions = EmptyDict
                 /\ watchers = <<>>
                 /\ toEnum = {}
                 /\ svcOpen = {}
                 /\ lastOp.op \in {"start", "service_appears", "waiting"} ))
    /\ [](npc # "connecting" => svcReachable)
    /\ [](lastOp.op \in {"connected", "fetch", "enumerate", "run", "status",
                         "mgr_event", "interrupt"} => npc # "connecting")
    /\ (svcReachable ~> npc # "connecting")

\* C16 witness: the notifier left the retry loop after it had waited for the
\* notification service
C16_Witness ==
    /\ npc = "fetch"
    /\ lastOp.op = "connected"
    /\ waits >= 1
    /\ svcReachable

\* C17: a status event changes a watcher's reconnecting flag in two cases
\* only: CONNECTION/RECONNECTING sets the flag of the session's watcher to
\* true and CONNECTION/CONNECTED sets it to false.  Every other event,
\* SESSION/AUTH_URL and CONNECTION/DISCONNECTED among them, leaves the flag of
\* every watcher as it was.
C17_FlagSetByReconnectingClearedByConnected ==
    [][ lastOp'.op = "status"
        => ( /\ Len(watchers') = Len(watchers)
             /\ \A i \in 1..Len(watchers) :
                   /\ watchers'[i].path = watchers[i].path
                   /\ watchers'[i].reconnecting =
                        ( IF watchers[i].path = lastOp'.path
                             /\ lastOp'.major = "CONNECTION"
                             /\ lastOp'.minor = "CONN_RECONNECTING"
                          THEN TRUE
                          ELSE IF watchers[i].path = lastOp'.path
                                  /\ lastOp'.major = "CONNECTION"
                                  /\ lastOp'.minor = "CONN_CONNECTED"
                          THEN FALSE
                          ELSE watchers[i].reconnecting ) )
      ]_vars

\* C17 witness: SESSION/AUTH_URL was delivered to a watcher that is Reconnecting
C17_Witness ==
    /\ IsStatus(lastOp, "SESSION", "SESS_AUTH_URL")
    /\ ~lastOp.idle
    /\ \E i \in 1..Len(watchers) :
          watchers[i].path = lastOp.path /\ watchers[i].reconnecting

\* C18: every watcher whose status subscription is attached is the watcher
\* the registry holds under its path, so at most one watcher per session path
\* reacts to a status event, and one status event issues at most one
\* notification.
C18_AttachedWatcherIsRegistered ==
    /\ \A i \in 1..Len(watchers) :
          /\ watchers[i].path \in DOMAIN sessions
          /\ sessions[watchers[i].path] = i
    /\ \A p \in Paths : Len(WatchersOf(watchers, p)) <= 1
    /\ (lastOp.op = "status"
          => Cardinality({k \in 1..Len(lastOp.calls) : lastOp.calls[k].op = "Notify"}) <= 1)

\* C19: after a CONNECTION/CONNECTED event has been processed for a session,
\* no "authentication required" notification of the session is outstanding,
\* whether the watcher was Idle or Reconnecting.  Stated for the event that
\* follows a SESSION/AUTH_URL event of the same session: the notification
\* that event opened is not outstanding after CONNECTED.
C19_NoAuthRequiredAfterConnected ==
    [][ ( /\ IsStatus(lastOp, "SESSION", "SESS_AUTH_URL")
          /\ IsStatus(lastOp', "CONNECTION", "CONN_CONNECTED")
          /\ lastOp'.path = lastOp.path )
        => \A k \in 1..Len(lastOp.calls) :
              lastOp.calls[k].title = "Authentication Required"
              => \A n \in svcOpen' : n.id # lastOp.calls[k].id
      ]_vars

\* C20: sessions are isolated from each other: a status event, a CheckStatus
\* or a Stop for the session at one path issues no notification for another
\* path, and leaves the watchers of every other path, the auth and reconnect
\* records kept for it and its outstanding notifications as they were.
C20_SessionsIsolated ==
    [][ lastOp'.op \in {"status", "enumerate", "mgr_event"}
        => \A q \in Paths \ {lastOp'.path} :
              /\ WatchersOf(watchers', q) = WatchersOf(watchers, q)
              /\ (q \in DOMAIN auth_notif') = (q \in DOMAIN auth_notif)
              /\ (q \in DOMAIN auth_notif => auth_notif'[q] = auth_notif[q])
              /\ (q \in DOMAIN reconn_notif') = (q \in DOMAIN reconn_notif)
              /\ (q \in DOMAIN reconn_notif => reconn_notif'[q] = reconn_notif[q])
              /\ {n \in svcOpen' : n.path = q} = {n \in svcOpen : n.path = q}
              /\ \A k \in 1..Len(lastOp'.calls) : lastOp'.calls[k].path # q
      ]_vars

\* C20 witness: a status event of one session issued a notification while the
\* watcher of another session was Reconnecting, with its reconnect
\* notification on record and outstanding
C20_Witness ==
    /\ lastOp.op = "status"
    /\ Len(lastOp.calls) >= 1
    /\ \E q \in Paths \ {lastOp.path} :
          /\ q \in DOMAIN reconn_notif
          /\ \E n \in svcOpen : n.path = q /\ n.group = "reconnect"
          /\ \E i \in 1..Len(watchers) :
                watchers[i].path = q /\ watchers[i].reconnecting

(***************************************************************************)
(* The log tailer (watch-session-log.py)                                   *)
(***************************************************************************)
\* StatusHandler as it would be if it compared the minor code alone
StatusHandler_minor_only(st, major, minor) ==
    [printed |-> st.printed + 1,
     quit |-> st.quit \/ minor \in {"PROC_STOPPED", "CONN_AUTH_FAILED",
                                     "CONN_FAILED", "CONN_DISCONNECTED"}]

\* StatusHandler: prints the event, and calls mainloop.quit() on four of them.
\* st = [printed, quit]
StatusHandler(st, major, minor) ==
    LET p1 == [st EXCEPT !.printed = @ + 1]
        q1 == IF major = "SESSION" /\ minor = "PROC_STOPPED"
              THEN [p1 EXCEPT !.quit = TRUE] ELSE p1
        q2 == IF major = "CONNECTION" /\ minor = "CONN_AUTH_FAILED"
              THEN [q1 EXCEPT !.quit = TRUE] ELSE q1
        q3 == IF major = "CONNECTION" /\ minor = "CONN_FAILED"
              THEN [q2 EXCEPT !.quit = TRUE] ELSE q2
        q4 == IF major = "CONNECTION" /\ minor = "CONN_DISCONNECTED"
              THEN [q3 EXCEPT !.quit = TRUE] ELSE q3
    IN  q4

\* the resolution as it would be if several matches were not refused
ResolveSession_first_match(o, n) ==
    IF o.config
    THEN IF n = 0 THEN "error" ELSE "ok"
    ELSE IF o.path THEN "ok"
    ELSE "error"

\* main program, lines 80-92: "ok" when session_path is set, "error" when
\* optparser.error() ends the process; n is len(search)
ResolveSession(o, n) ==
    IF o.config
    THEN IF n = 0 THEN "error"
         ELSE IF n > 1 THEN "error"
         ELSE "ok"
    ELSE IF o.path THEN "ok"
    ELSE "error"

\* the log tailer process right after it was started with some command line
TailerInit ==
    /\ tpc = "start"
    /\ opts \in [config : BOOLEAN, path : BOOLEAN, log_level : BOOLEAN]
    /\ found = -1
    /\ tcalls = <<>>
    /\ printed = 0
    /\ received = 0
    /\ lastStatus = <<"-", "-">>
    /\ quitReq = FALSE
    /\ loopEnd = "-"
    /\ exitCode = -1

\* optparser.parse_args(): --config and --path are mutually exclusive
ParseArgs ==
    /\ tpc = "start"
    /\ IF opts.config /\ opts.path
       THEN tpc' = "done" /\ exitCode' = 2
       ELSE tpc' = "resolve" /\ exitCode' = exitCode
    /\ UNCHANGED <<opts, found, tcalls, printed, received, lastStatus, quitReq, loopEnd>>
    /\ UNCHANGED nvars

\* main program: find the D-Bus path of the requested session
FindSession ==
    /\ tpc = "resolve"
    /\ \E n \in 0..MaxFound :
          /\ found' = IF opts.config THEN n ELSE found
          /\ tcalls' = IF opts.config THEN Append(tcalls, "LookupConfigName") ELSE tcalls
          /\ IF ResolveSession(opts, n) = "ok"
             THEN tpc' = "attach" /\ exitCode' = exitCode
             ELSE tpc' = "done" /\ exitCode' = 2
    /\ UNCHANGED <<opts, printed, received, lastStatus, quitReq, loopEnd>>
    /\ UNCHANGED nvars

\* main program: retrieve the session, attach the handlers, set the log level
AttachSession ==
    /\ tpc = "attach"
    /\ tcalls' = tcalls \o <<"Retrieve", "LogCallback(LogHandler)",
                             "StatusChangeCallback(StatusHandler)">>
                        \o (IF opts.log_level THEN <<"SetProperty(log_verbosity)">> ELSE <<>>)
    /\ tpc' = "run"
    /\ UNCHANGED <<opts, found, printed, received, lastStatus, quitReq, loopEnd, exitCode>>
    /\ UNCHANGED nvars

\* a StatusChange signal of the session is dispatched by the main loop
TailerStatusChange ==
    /\ tpc = "run"
    /\ ~quitReq
    /\ received < MaxPrinted
    /\ \E s \in Statuses :
          LET r == StatusHandler([printed |-> printed, quit |-> quitReq], s[1], s[2])
          IN  /\ printed' = r.printed
              /\ quitReq' = r.quit
              /\ lastStatus' = s
    /\ received' = received + 1
    /\ UNCHANGED <<tpc, opts, found, tcalls, loopEnd, exitCode>>
    /\ UNCHANGED nvars

\* mainloop.run() returns after mainloop.quit()
MainloopQuit ==
    /\ tpc = "run"
    /\ quitReq
    /\ tpc' = "detach"
    /\ loopEnd' = "quit"
    /\ UNCHANGED <<opts, found, tcalls, printed, received, lastStatus, quitReq, exitCode>>
    /\ UNCHANGED nvars

\* the interrupt as it would be handled if the except block left the process
TailerInterrupt_exits ==
    /\ tpc = "run"
    /\ tpc' = "done"
    /\ loopEnd' = "interrupt"
    /\ exitCode' = 0
    /\ UNCHANGED <<opts, found, tcalls, printed, received, lastStatus, quitReq>>
    /\ UNCHANGED nvars

\* mainloop.run() is left by KeyboardInterrupt, which the main program catches
TailerInterrupt ==
    /\ tpc = "run"
    /\ tpc' = "detach"
    /\ loopEnd' = "interrupt"
    /\ UNCHANGED <<opts, found, tcalls, printed, received, lastStatus, quitReq, exitCode>>
    /\ UNCHANGED nvars

\* main program: session.LogCallback(None), sys.exit(0)
DetachAndExit ==
    /\ tpc = "detach"
    /\ tcalls' = Append(tcalls, "LogCallback(None)")
    /\ exitCode' = 0
    /\ tpc' = "done"
    /\ UNCHANGED <<opts, found, printed, received, lastStatus, quitReq, loopEnd>>
    /\ UNCHANGED nvars

TailerNext ==
    \/ ParseArgs
    \/ FindSession
    \/ AttachSession
    \/ TailerStatusChange
    \/ MainloopQuit
    \/ TailerInterrupt
    \/ DetachAndExit

InitTailer == TailerInit /\ NotifierOff

SpecTailer == InitTailer /\ [][TailerNext]_vars

(***************************************************************************)
(* Properties of the log tailer                                            *)
(***************************************************************************)
\* the four statuses after which a session is no longer actionable
TerminalStatuses ==
    {<<"SESSION", "PROC_STOPPED">>, <<"CONNECTION", "CONN_AUTH_FAILED">>,
     <<"CONNECTION", "CONN_FAILED">>, <<"CONNECTION", "CONN_DISCONNECTED">>}

\* number of session.LogCallback(None) calls made so far
Detaches == Cardinality({i \in 1..Len(tcalls) : tcalls[i] = "LogCallback(None)"})

\* the calls that use the retrieved session
SessionCalls ==
    {i \in 1..Len(tcalls) :
        tcalls[i] \in {"Retrieve", "LogCallback(LogHandler)",
                       "StatusChangeCallback(StatusHandler)",
                       "SetProperty(log_verbosity)"}}

\* C7: the status handler prints every status event it receives and requests
\* the end of the run loop exactly when the event is one of the four terminal
\* statuses; after any other event the loop keeps running, so it ends by the
\* first terminal status or by an interrupt.
C7_QuitExactlyOnTerminalStatus ==
    /\ printed = received
    /\ (received = 0 => ~quitReq)
    /\ (received > 0 => (quitReq <=> lastStatus \in TerminalStatuses))
    /\ (loopEnd = "quit" => lastStatus \in TerminalStatuses)
    /\ ((tpc = "run" /\ ~quitReq) => loopEnd = "-")

\* C7 witness: the second status event was (CONNECTION, CONN_AUTH_FAILED) and
\* ended the run loop
C7_Witness ==
    /\ received = 2
    /\ printed = 2
    /\ lastStatus = <<"CONNECTION", "CONN_AUTH_FAILED">>
    /\ loopEnd = "quit"

\* C8: whenever the run loop has ended, by a terminal status or by an
\* interrupt, the tailer detaches the log subscription exactly once and exits
\* with status 0; no detach is made before the loop has ended.
C8_DetachOnEveryLoopExit ==
    /\ (loopEnd # "-" => tpc \in {"detach", "done"})
    /\ ((tpc = "done" /\ loopEnd # "-")
          => ( /\ exitCode = 0
               /\ Detaches = 1
               /\ tcalls[Len(tcalls)] = "LogCallback(None)" ))
    /\ (tpc # "done" => (Detaches = 0 /\ exitCode = -1))

\* C8 witness: the tailer has exited after an interrupt
C8_Witness ==
    /\ tpc = "done"
    /\ loopEnd = "interrupt"
    /\ received > 0
    /\ exitCode = 0

\* C9: the session is retrieved and used only when exactly one target is
\* selected (--path, or --config with exactly one match); with --config
\* matching no session or several, or with neither option, the tailer ends
\* with a non-zero exit status and has made no call that uses a session.
C9_UsageErrorBeforeSessionCalls ==
    LET oneTarget == \/ (opts.path /\ ~opts.config)
                     \/ (opts.config /\ ~opts.path /\ found = 1)
        misuse == \/ (opts.config /\ ~opts.path /\ (found = 0 \/ found >= 2))
                  \/ (~opts.config /\ ~opts.path)
    IN  /\ (SessionCalls # {} => oneTarget)
        /\ ((misuse /\ tpc \notin {"start", "resolve"})
              => (tpc = "done" /\ exitCode > 0 /\ SessionCalls = {}))

\* C9 witness: --config matched two sessions and the tailer has ended
C9_Witness ==
    /\ opts.config
    /\ found = 2
    /\ tpc = "done"
    /\ exitCode = 2

====
